---------------------------- MODULE Spec2Model ----------------------------
(***************************************************************************)
(* A model of pubmed_authorscan (src/pubmed_authorscan/core.py): the       *)
(* affiliation classifier, the e-mail extractor, the article parser with   *)
(* its cascade of external resolvers, the paginated ID search and the      *)
(* batched detail fetch.                                                   *)
(*                                                                         *)
(* A Python str is a sequence of one-character strings, so that substring  *)
(* tests, lower() and the e-mail regular expression are computed character *)
(* by character.  Python's None is the one-element sequence <<"None">>,    *)
(* which no text can equal because every character is a single character.  *)
(***************************************************************************)
EXTENDS Naturals, Integers, Sequences, FiniteSets, TLC


(***************************************************************************)
(* State.  mode is the entry point that was called and pc the position of  *)
(* the call; the other variables are the locals of the functions and the   *)
(* traffic observed at their HTTP boundary.                                *)
(***************************************************************************)
VARIABLES
    mode,                \* "classify" | "ids" | "details" | "parse"
    pc,                  \* control position of the running call
    affil_in,            \* is_non_academic_affiliation: its argument
    classified,          \* is_non_academic_affiliation: its return value
    retmax,              \* fetch_pubmed_ids: page size argument
    retstart,            \* fetch_pubmed_ids: offset of the next page
    total,               \* fetch_pubmed_ids: total count, -1 while None
    all_ids,             \* fetch_pubmed_ids: IDs collected so far
    esearch_log,         \* ESearch requests issued: [retstart, outcome], in order (the first LogCap of them)
    esearch_parity,      \* the number of ESearch requests issued, modulo 2
    pages,               \* ESearch responses decoded: their ID lists, in order
    first_count,         \* the count of the first ESearch response decoded, -1 before
    n_ids,               \* fetch_pubmed_details: len(pubmed_ids)
    i,                   \* fetch_pubmed_details: offset of the current batch
    resp,                \* fetch_pubmed_details: PubmedArticle elements of the batch response
    art_idx,             \* fetch_pubmed_details: index in resp of the article being parsed
    results,             \* fetch_pubmed_details: records collected so far
    results_src,         \* the articles that gave a record, in the order they were parsed: [batch, index, article]
    efetch_log,          \* EFetch requests issued: their batch offset, in order
    article,             \* parse_pubmed_article: its argument
    possible_emails,     \* parse_pubmed_article: candidate e-mails
    non_acad_authors,    \* parse_pubmed_article: names of the non-academic authors
    corresponding_email, \* parse_pubmed_article: the resolved e-mail
    calls,               \* resolver invocations of the current parse, in order
    returned             \* the value the call returned (an Optional as a sequence of length 0 or 1); <<>> while running and after a raise

None == <<"None">>

\* Python truthiness of an Optional[str]: None and "" are false.
Truthy(x) == x # None /\ x # <<>>

(***************************************************************************)
(* Characters.                                                             *)
(***************************************************************************)
UpperChars == <<"A", "B", "C", "D", "E", "F", "G", "H", "I", "J", "K", "L", "M", "N", "O", "P", "Q", "R", "S", "T", "U", "V", "W", "X", "Y", "Z", "É", "À">>

LowerChars == <<"a", "b", "c", "d", "e", "f", "g", "h", "i", "j", "k", "l", "m", "n", "o", "p", "q", "r", "s", "t", "u", "v", "w", "x", "y", "z", "é", "à">>

\* The ASCII letters, [A-Za-z] of the regular expressions.
AlphaChars == {UpperChars[x] : x \in 1..26} \cup {LowerChars[x] : x \in 1..26}

DigitChars == {"0", "1", "2", "3", "4", "5", "6", "7", "8", "9"}

\* [A-Za-z0-9._%+-], the local part of the e-mail pattern.
LocalChars == AlphaChars \cup DigitChars \cup {".", "_", "%", "+", "-"}

\* [A-Za-z0-9.-], the domain part of the e-mail pattern.
DomainChars == AlphaChars \cup DigitChars \cup {".", "-"}

\* str.lower() on one character.
LowerChar(c) == IF \E x \in DOMAIN UpperChars : UpperChars[x] = c THEN LowerChars[CHOOSE x \in DOMAIN UpperChars : UpperChars[x] = c] ELSE c

\* str.lower().
Lower(s) == [x \in 1..Len(s) |-> LowerChar(s[x])]

\* Python's `w in s` on strings: w occurs in s as a contiguous substring.
Contains(s, w) == \E x \in 1..(Len(s) + 1 - Len(w)) : \A y \in 1..Len(w) : s[x + y - 1] = w[y]

(***************************************************************************)
(* The affiliation classifier.                                             *)
(***************************************************************************)
ACADEMIC_KEYWORDS == <<<<"u", "n", "i", "v", "e", "r", "s", "i", "t", "y">>, <<"c", "o", "l", "l", "e", "g", "e">>, <<"i", "n", "s", "t", "i", "t", "u", "t", "e">>, <<"s", "c", "h", "o", "o", "l">>, <<"h", "o", "s", "p", "i", "t", "a", "l">>, <<"f", "a", "c", "u", "l", "t", "y">>, <<"d", "e", "p", "a", "r", "t", "m", "e", "n", "t">>, <<"c", "e", "n", "t", "e", "r">>, <<"c", "e", "n", "t", "r", "e">>, <<"a", "c", "a", "d", "e", "m", "y">>, <<"u", "n", "i", "v", "e", "r", "s", "i", "t", "é">>, <<"u", "n", "i", "v", "e", "r", "s", "i", "d", "a", "d">>, <<"u", "n", "i", "v", "e", "r", "s", "i", "t", "à">>, <<"c", "l", "i", "n", "i", "c">>>>

PHARMA_KEYWORDS == <<<<"p", "h", "a", "r", "m", "a">>, <<"b", "i", "o", "t", "e", "c", "h">>, <<"t", "h", "e", "r", "a", "p", "e", "u", "t", "i", "c", "s">>, <<"l", "a", "b", "o", "r", "a", "t", "o", "r", "i", "e", "s">>, <<"i", "n", "c">>, <<"l", "t", "d">>, <<"g", "m", "b", "h">>, <<"s", ".", "a", ".">>, <<"s", ".", "r", ".", "l", ".">>, <<"c", "o", "r", "p">>, <<"l", "l", "c">>>>

\* Mutant: the commercial keywords are looked up before the academic ones.
is_non_academic_affiliation_PharmaFirst(affil) ==
    IF ~Truthy(affil) THEN FALSE
    ELSE LET affil_lower == Lower(affil) IN
         IF \E word \in DOMAIN PHARMA_KEYWORDS : Contains(affil_lower, PHARMA_KEYWORDS[word]) THEN TRUE
         ELSE FALSE

is_non_academic_affiliation(affil) ==
    IF ~Truthy(affil) THEN FALSE
    ELSE LET affil_lower == Lower(affil) IN
         IF \E word \in DOMAIN ACADEMIC_KEYWORDS : Contains(affil_lower, ACADEMIC_KEYWORDS[word]) THEN FALSE
         ELSE IF \E word \in DOMAIN PHARMA_KEYWORDS : Contains(affil_lower, PHARMA_KEYWORDS[word]) THEN TRUE
         ELSE FALSE

(***************************************************************************)
(* The e-mail extractor:                                                   *)
(*   re.search(r"[A-Za-z0-9._%+-]+@[A-Za-z0-9.-]+\.[A-Za-z]{2,}", text)    *)
(* re.search returns the match at the leftmost start position; at a start  *)
(* position every quantifier is greedy and gives back only what the rest   *)
(* of the pattern needs.                                                   *)
(***************************************************************************)
\* The last index of the maximal run of characters of cls that starts at i
\* (i - 1 when s[i] is not in cls or i is past the end).
RECURSIVE RunEnd(_, _, _)
RunEnd(s, p, cls) == IF p <= Len(s) /\ s[p] \in cls THEN RunEnd(s, p + 1, cls) ELSE p - 1

\* The index of the last character of the match that starts at p, 0 if the
\* pattern does not match there.  "@" is no local-part character, so the
\* local part is the whole run at p; the domain part is greedy, so the "\."
\* of the pattern is the last dot of the domain run that has a character of
\* the run before it and two letters after it.
EmailMatchEnd(s, p) ==
    LET le == RunEnd(s, p, LocalChars)
        de == RunEnd(s, le + 2, DomainChars)
        dots == {q \in (le + 3)..(de - 2) : s[q] = "." /\ s[q + 1] \in AlphaChars /\ s[q + 2] \in AlphaChars}
    IN  IF le < p \/ le + 1 > Len(s) THEN 0
        ELSE IF s[le + 1] # "@" THEN 0
        ELSE IF dots = {} THEN 0
        ELSE RunEnd(s, (CHOOSE q \in dots : \A r \in dots : r <= q) + 1, AlphaChars)

\* The leftmost start position at or after p where the pattern matches, 0 if none.
RECURSIVE FirstEmailStart(_, _)
FirstEmailStart(s, p) == IF p > Len(s) THEN 0 ELSE IF EmailMatchEnd(s, p) # 0 THEN p ELSE FirstEmailStart(s, p + 1)

\* re.search(EMAIL, text): the match, or None.
SearchEmail(text) ==
    LET p == FirstEmailStart(text, 1)
    IN  IF p = 0 THEN None ELSE SubSeq(text, p, EmailMatchEnd(text, p))

extract_email_from_affil(affil) == SearchEmail(affil)

classifyVars == <<affil_in, classified>>

idsVars == <<retmax, retstart, total, all_ids, esearch_log, esearch_parity, pages, first_count>>

detailsVars == <<n_ids, i, resp, art_idx, results, results_src, efetch_log>>

parseVars == <<article, possible_emails, non_acad_authors, corresponding_email, calls>>

vars == <<mode, pc, affil_in, classified, retmax, retstart, total, all_ids, esearch_log, esearch_parity, pages, first_count, n_ids, i, resp, art_idx, results, results_src, efetch_log, article, possible_emails, non_acad_authors, corresponding_email, calls, returned>>

\* The article value of a call that has no article at hand.
NoArticle == [has_article_info |-> FALSE, pmid |-> None, article_ids |-> <<>>, authors |-> <<>>]

IdleClassify == affil_in = <<>> /\ classified = FALSE

IdleIds == retmax = 0 /\ retstart = 0 /\ total = -1 /\ all_ids = <<>> /\ esearch_log = <<>> /\ esearch_parity = 0 /\ pages = <<>> /\ first_count = -1

IdleDetails == n_ids = 0 /\ i = 0 /\ resp = <<>> /\ art_idx = 0 /\ results = <<>> /\ results_src = <<>> /\ efetch_log = <<>>

IdleParse == article = NoArticle /\ possible_emails = <<>> /\ non_acad_authors = <<>> /\ corresponding_email = None /\ calls = <<>>

(***************************************************************************)
(* The external resolvers.  A response is what the HTTP boundary hands     *)
(* back: net = "error" when requests.get raises (connection failure,       *)
(* timeout), else a status code and a body.  A body is undecodable         *)
(* (resp.json() raises ValueError), decodes to something that is no JSON   *)
(* object (.get raises AttributeError) or decodes to an object.            *)
(* The body of a resolver's try block yields [raises, value]; the except   *)
(* clause around it turns every exception into the return value None.      *)
(***************************************************************************)
Return(v) == [raises |-> FALSE, value |-> v]

Raise == [raises |-> TRUE, value |-> None]

\* Mutant: the exception of the try block is not caught.
NoExcept(body) == body

\* try: ... except Exception: return None
ExceptReturnNone(body) == IF body.raises THEN Return(None) ELSE body

\* The pattern r"mailto:(EMAIL)" matches at p.
MailtoMatchesAt(name, p) == (\A j \in 1..7 : p + j - 1 <= Len(name) /\ name[p + j - 1] = (<<"m", "a", "i", "l", "t", "o", ":">>)[j]) /\ EmailMatchEnd(name, p + 7) # 0

RECURSIVE FirstMailtoStart(_, _)
FirstMailtoStart(name, p) == IF p > Len(name) THEN 0 ELSE IF MailtoMatchesAt(name, p) THEN p ELSE FirstMailtoStart(name, p + 1)

\* re.search(r"mailto:(EMAIL)", name): group 1 of the leftmost match, or None.
SearchMailto(name) ==
    LET p == FirstMailtoStart(name, 1)
    IN  IF p = 0 THEN None ELSE SubSeq(name, p + 7, EmailMatchEnd(name, p + 7))

\* author.get('email') is truthy: a non-empty string or a non-empty list.
CrossrefEmailTruthy(a) == (a.email_kind = "str" /\ a.email # <<<<>>>>) \/ (a.email_kind = "list" /\ a.email # <<>>)

\* The <<author index, affiliation index>> pairs whose affiliation name holds
\* a mailto: link the pattern matches.
MailtoHits(authors) == UNION {{<<x, y>> : y \in {z \in DOMAIN authors[x].affiliation : Contains(authors[x].affiliation[z], <<"m", "a", "i", "l", "t", "o", ":">>) /\ SearchMailto(authors[x].affiliation[z]) # None}} : x \in DOMAIN authors}

CrossrefTry(r) ==
    IF r.net = "error" THEN Raise
    ELSE IF r.status # 200 THEN Return(None)
    ELSE IF r.body.kind # "object" THEN Raise
    ELSE LET authors == r.body.author
             withEmail == {x \in DOMAIN authors : CrossrefEmailTruthy(authors[x])}
             hits == MailtoHits(authors)
         IN  IF withEmail # {}
             THEN Return(authors[CHOOSE x \in withEmail : \A y \in withEmail : x <= y].email[1])
             ELSE IF hits # {}
             THEN LET p == CHOOSE q \in hits : \A h \in hits : q[1] < h[1] \/ (q[1] = h[1] /\ q[2] <= h[2])
                  IN  Return(SearchMailto(authors[p[1]].affiliation[p[2]]))
             ELSE Return(None)

get_email_from_crossref(r) == ExceptReturnNone(CrossrefTry(r))

\* One result of the Europe PMC search makes the loop return: an author of
\* its authorList has an 'email' key, or its affiliation holds an address.
EuropepmcYields(res) ==
    \/ res.has_authorList /\ \E x \in DOMAIN res.authorList : res.authorList[x].has_email
    \/ res.has_affiliation /\ Contains(res.affiliation, <<"@">>) /\ SearchEmail(res.affiliation) # None

\* What the loop returns at such a result.
EuropepmcValue(res) ==
    LET withEmail == {x \in DOMAIN res.authorList : res.authorList[x].has_email}
    IN  IF res.has_authorList /\ withEmail # {}
        THEN res.authorList[CHOOSE x \in withEmail : \A y \in withEmail : x <= y].email
        ELSE SearchEmail(res.affiliation)

EuropepmcTry(r) ==
    IF r.net = "error" THEN Raise
    ELSE IF r.status # 200 THEN Return(None)
    ELSE IF r.body.kind # "object" THEN Raise
    ELSE LET res == r.body.result
             yielding == {x \in DOMAIN res : EuropepmcYields(res[x])}
         IN  IF yielding = {} THEN Return(None)
             ELSE Return(EuropepmcValue(res[CHOOSE x \in yielding : \A y \in yielding : x <= y]))

get_email_from_europepmc(r) == ExceptReturnNone(EuropepmcTry(r))

EmailsEndpointTry(r) ==
    IF r.net = "error" THEN Raise
    ELSE IF r.status # 200 THEN Return(None)
    ELSE IF r.body.kind # "object" THEN Raise
    ELSE IF r.body.email # <<>> THEN Return(r.body.email[1])
    ELSE Return(None)

get_email_from_europepmc_emails_endpoint(r) == ExceptReturnNone(EmailsEndpointTry(r))

\* A response is a failure: a network error, a status other than 2xx or a
\* body that is not the JSON object the resolver reads.
FailedResponse(r) == r.net = "error" \/ r.status \notin 200..299 \/ r.body.kind # "object"

NetError == [net |-> "error", status |-> 0, body |-> [kind |-> "none"]]

BadStatus(s) == [net |-> "ok", status |-> s, body |-> [kind |-> "none"]]

Undecodable == [net |-> "ok", status |-> 200, body |-> [kind |-> "undecodable"]]

NotObject == [net |-> "ok", status |-> 200, body |-> [kind |-> "not_object"]]

CrossrefOk(authors) == [net |-> "ok", status |-> 200, body |-> [kind |-> "object", author |-> authors]]

CrossrefAuthor(kind, email, affiliation) == [email_kind |-> kind, email |-> email, affiliation |-> affiliation]

CrossrefResponses == {
    NetError, BadStatus(404), Undecodable, NotObject,
    CrossrefOk(<<>>),
    CrossrefOk(<<CrossrefAuthor("absent", <<>>, <<>>), CrossrefAuthor("str", <<<<"c", "r", "@", "x", ".", "o", "r", "g">>>>, <<>>)>>),
    CrossrefOk(<<CrossrefAuthor("list", <<>>, <<>>), CrossrefAuthor("list", <<<<"c", "r", "@", "x", ".", "o", "r", "g">>, <<"c", "2", "@", "x", ".", "o", "r", "g">>>>, <<>>)>>),
    CrossrefOk(<<CrossrefAuthor("list", <<<<>>>>, <<>>)>>),
    CrossrefOk(<<CrossrefAuthor("absent", <<>>, <<<<"m", "a", "i", "l", "t", "o", ":", "n", "o", "b", "o", "d", "y">>, <<"L", "a", "b", " ", "m", "a", "i", "l", "t", "o", ":", "c", "r", "@", "x", ".", "o", "r", "g", ".">>>>)>>) }

EuropepmcOk(res) == [net |-> "ok", status |-> 200, body |-> [kind |-> "object", result |-> res]]

EuropepmcResponses == {
    NetError, BadStatus(500), Undecodable,
    EuropepmcOk(<<>>),
    EuropepmcOk(<<[has_authorList |-> TRUE, authorList |-> <<[has_email |-> FALSE, email |-> None], [has_email |-> TRUE, email |-> <<"e", "p", "@", "x", ".", "o", "r", "g">>]>>, has_affiliation |-> FALSE, affiliation |-> <<>>]>>),
    EuropepmcOk(<<[has_authorList |-> FALSE, authorList |-> <<>>, has_affiliation |-> TRUE, affiliation |-> <<"L", "a", "b", ",", " ", "n", "o", " ", "a", "d", "d", "r", "e", "s", "s">>], [has_authorList |-> FALSE, authorList |-> <<>>, has_affiliation |-> TRUE, affiliation |-> <<"L", "a", "b", ",", " ", "e", "p", "@", "x", ".", "o", "r", "g">>]>>) }

EmailsOk(emails) == [net |-> "ok", status |-> 200, body |-> [kind |-> "object", email |-> emails]]

EmailsEndpointResponses == {NetError, BadStatus(404), Undecodable, EmailsOk(<<>>), EmailsOk(<<<<"e", "m", "@", "x", ".", "o", "r", "g">>, <<"e", "2", "@", "x", ".", "o", "r", "g">>>>)}

(***************************************************************************)
(* The article parser.  A PubmedArticle element is a record: whether it    *)
(* has MedlineCitation/Article, the text of PMID, its ArticleId elements   *)
(* and the Author elements of its AuthorList.  An author has LastName,     *)
(* Initials, the non-empty texts of its AffiliationInfo/Affiliation, the   *)
(* text of its Identifier with Source "email" and the text of its          *)
(* ElectronicAddress (None when absent).  Title and publication date do    *)
(* not enter any decision of the parser and are left out of the record.    *)
(***************************************************************************)
\* "; ".join(parts)
RECURSIVE Join(_)
Join(parts) == IF parts = <<>> THEN <<>> ELSE IF Len(parts) = 1 THEN parts[1] ELSE parts[1] \o <<";", " ">> \o Join(Tail(parts))

\* str.strip() of the blanks at both ends.
RECURSIVE Strip(_)
Strip(s) == IF s = <<>> THEN s ELSE IF s[1] = " " THEN Strip(Tail(s)) ELSE IF s[Len(s)] = " " THEN Strip(SubSeq(s, 1, Len(s) - 1)) ELSE s

get_doi_from_pubmed_xml(art) ==
    LET dois == {x \in DOMAIN art.article_ids : Lower(art.article_ids[x].IdType) = <<"d", "o", "i">> /\ Truthy(art.article_ids[x].text)}
    IN  IF dois = {} THEN None ELSE Strip(art.article_ids[CHOOSE x \in dois : \A y \in dois : x <= y].text)

extract_author_name(author) ==
    IF Truthy(author.LastName) /\ Truthy(author.Initials) THEN author.LastName \o <<",", " ">> \o author.Initials
    ELSE IF Truthy(author.LastName) THEN author.LastName
    ELSE <<"U", "n", "k", "n", "o", "w", "n">>

\* The e-mail embedded in the author element: ElectronicAddress is read
\* after the Identifier and overwrites it.
email_from_identifier(author) ==
    IF Truthy(author.electronic_address) THEN author.electronic_address
    ELSE IF Truthy(author.identifier_email) THEN author.identifier_email
    ELSE None

\* The affiliation texts that occur in the articles of the model.
AffExample == <<"A", "c", "m", "e", " ", "P", "h", "a", "r", "m", "a", " ", "I", "n", "c", ",", " ", "c", "o", "n", "t", "a", "c", "t", ":", " ", "j", "a", "n", "e", "@", "a", "c", "m", "e", ".", "c", "o", "m">>

AffCorrBeta == <<"C", "o", "r", "r", "e", "s", "p", "o", "n", "d", "i", "n", "g", " ", "a", "u", "t", "h", "o", "r", ":", " ", "B", "e", "t", "a", " ", "B", "i", "o", "t", "e", "c", "h", ",", " ", "b", "o", "b", "@", "b", "e", "t", "a", ".", "i", "o">>

AffCorrGamma == <<"G", "a", "m", "m", "a", " ", "C", "o", "r", "p", " ", "(", "C", "O", "R", "R", "E", "S", "P", "O", "N", "D", "I", "N", "G", ")", " ", "c", "y", "@", "g", "a", "m", "m", "a", ".", "d", "e", ",", " ", "a", "l", "t", "@", "g", "a", "m", "m", "a", ".", "d", "e">>

AffCorrAcademic == <<"U", "n", "i", "v", "e", "r", "s", "i", "t", "y", " ", "o", "f", " ", "X", ",", " ", "c", "o", "r", "r", "e", "s", "p", "o", "n", "d", "i", "n", "g", ":", " ", "u", "@", "x", ".", "e", "d", "u">>

AffNoEmail == <<"D", "e", "l", "t", "a", " ", "L", "t", "d">>

AffNoKeyword == <<"P", "r", "i", "v", "a", "t", "e", " ", "p", "r", "a", "c", "t", "i", "c", "e", ",", " ", "p", "p", "@", "h", "o", "m", "e", ".", "n", "e", "t">>

AffilTexts == {AffExample, AffCorrBeta, AffCorrGamma, AffCorrAcademic, AffNoEmail, AffNoKeyword}

\* What lines 313, 317 and 319 compute from an affiliation text, computed
\* once for each text of the model.
AffilFacts == [a \in AffilTexts |-> [hit |-> is_non_academic_affiliation(a), email |-> extract_email_from_affil(a), corresponding |-> Contains(Lower(a), <<"c", "o", "r", "r", "e", "s", "p", "o", "n", "d", "i", "n", "g">>)]]

\* Mutant: an e-mail of a "corresponding" affiliation is appended like any other.
AddAffilEmail_Append(emails, aff, email) == Append(emails, email)

\* Lines 319-322: the e-mail of an affiliation that says "corresponding"
\* goes to the front of the candidate list, any other to its end.
AddAffilEmail(emails, aff, email) == IF AffilFacts[aff].corresponding THEN <<email>> \o emails ELSE Append(emails, email)

\* Line 313.
AffilIsHit(aff) == AffilFacts[aff].hit

\* One pass of the loop over an author's affiliations (lines 312-322).
\* acc = [names, affils, emails].
AffilStep(acc, author, aff) ==
    IF AffilIsHit(aff)
    THEN LET email == AffilFacts[aff].email
         IN  [names |-> Append(acc.names, extract_author_name(author)),
              affils |-> Append(acc.affils, aff),
              emails |-> IF Truthy(email) THEN AddAffilEmail(acc.emails, aff, email) ELSE acc.emails]
    ELSE acc

RECURSIVE AffilLoop(_, _, _)
AffilLoop(acc, author, affs) == IF affs = <<>> THEN acc ELSE AffilLoop(AffilStep(acc, author, Head(affs)), author, Tail(affs))

\* One pass of the loop over the authors (lines 299-322).
AuthorStep(acc, author) ==
    LET e == email_from_identifier(author)
        acc1 == IF Truthy(e) THEN [acc EXCEPT !.emails = Append(@, e)] ELSE acc
    IN  AffilLoop(acc1, author, author.affils)

RECURSIVE AuthorLoop(_, _)
AuthorLoop(acc, authors) == IF authors = <<>> THEN acc ELSE AuthorLoop(AuthorStep(acc, Head(authors)), Tail(authors))

\* Lines 294-322: non_acad_authors, company_affils and possible_emails.
Collect(art) == AuthorLoop([names |-> <<>>, affils |-> <<>>, emails |-> <<>>], art.authors)

\* Lines 343-350.
Record(art, c, email) ==
    [PubmedID |-> art.pmid,
     NonAcademicAuthors |-> Join(c.names),
     CompanyAffiliations |-> Join(c.affils),
     CorrespondingAuthorEmail |-> IF Truthy(email) THEN email ELSE <<>>]

(***************************************************************************)
(* Articles the calls are run on.                                          *)
(***************************************************************************)
\* Bound: an article of a direct parse_pubmed_article call has at most MaxAuthors authors.
MaxAuthors == 3

\* Bound: the EFetch responses of one fetch_pubmed_details call hold at most
\* MaxArticles PubmedArticle elements between them.
MaxArticles == 2

\* Bound: fetch_pubmed_details is called with at most MaxBatches batches of IDs.
MaxBatches == 2

Author(affils, ident, elec) == [LastName |-> <<"D", "o", "e">>, Initials |-> <<"J">>, affils |-> affils, identifier_email |-> ident, electronic_address |-> elec]

AuthorPool == {
    Author(<<AffCorrBeta>>, None, None),
    Author(<<AffCorrGamma>>, <<"i", "d", "@", "x", ".", "o", "r", "g">>, None),
    Author(<<AffExample>>, None, None),
    Author(<<AffCorrAcademic>>, None, None),
    Author(<<AffNoEmail>>, None, None),
    Author(<<AffNoKeyword, AffNoEmail>>, None, None),
    Author(<<AffNoKeyword>>, None, None),
    Author(<<>>, <<"i", "d", "@", "x", ".", "o", "r", "g">>, <<"e", "l", "@", "x", ".", "o", "r", "g">>),
    Author(<<AffExample, AffCorrBeta>>, None, <<"e", "l", "@", "x", ".", "o", "r", "g">>) }

RECURSIVE SeqsUpTo(_, _)
SeqsUpTo(S, n) == IF n = 0 THEN {<<>>} ELSE SeqsUpTo(S, n - 1) \cup {Append(s, x) : s \in SeqsUpTo(S, n - 1), x \in S}

NoIds == <<>>

DoiIds == <<[IdType |-> <<"p", "u", "b", "m", "e", "d">>, text |-> <<"7">>], [IdType |-> <<"D", "O", "I">>, text |-> <<" ", "1", "0", ".", "1", "/", "x", " ">>]>>

Article(pmid, ids, authors) == [has_article_info |-> TRUE, pmid |-> pmid, article_ids |-> ids, authors |-> authors]

\* An element without MedlineCitation/Article.
BareArticle == [has_article_info |-> FALSE, pmid |-> None, article_ids |-> NoIds, authors |-> <<>>]

ParseArticles == {BareArticle} \cup {Article(p, d, a) : p \in {None, <<"7">>}, d \in {NoIds, DoiIds}, a \in SeqsUpTo(AuthorPool, MaxAuthors)}

\* Articles of EFetch responses: one that is dropped although it has e-mails
\* and a DOI, one whose e-mail is in the affiliation, one that needs the
\* resolvers.
DetailArticles == {
    Article(<<"1">>, DoiIds, <<Author(<<AffCorrAcademic>>, <<"i", "d", "@", "x", ".", "o", "r", "g">>, None)>>),
    Article(<<"2">>, NoIds, <<Author(<<AffExample>>, None, None)>>),
    Article(<<"3">>, DoiIds, <<Author(<<AffNoEmail>>, None, None)>>) }

EFetchResponses == SeqsUpTo(DetailArticles, MaxArticles)

\* The number of PubmedArticle elements received so far.
RECURSIVE Received(_)
Received(log) == IF log = <<>> THEN 0 ELSE Head(log).articles + Received(Tail(log))

BATCH_SIZE == 100

\* len(pubmed_ids): none, one, and around every multiple of the batch size.
IdCounts == {n \in {0, 1} \cup {b * BATCH_SIZE + d : b \in 1..MaxBatches, d \in {-1, 0, 1}} : n <= MaxBatches * BATCH_SIZE}

(***************************************************************************)
(* fetch_pubmed_details and parse_pubmed_article.                          *)
(***************************************************************************)
\* Mutant: a new record is put in front of the list.
AppendResult_Front(list, x) == <<x>> \o list

\* Line 69: results.append(result).
AppendResult(list, x) == Append(list, x)

\* Mutant: a failed request is taken as an empty response.
RequestRaises_Never(outcome) == FALSE

\* requests.get raising, raise_for_status() on a status that is not 2xx and
\* the decoding of the body raising all propagate to the caller.
RequestRaises(outcome) == outcome # "ok"

RequestOutcomes == {"ok", "connection_error", "http_error", "undecodable_body"}

\* Mutant: the cascade goes on whatever the previous resolver returned.
CascadeGoesOn_Always(email, pmid) == Truthy(pmid)

\* Lines 336 and 339: `if not corresponding_email and pmid`.
CascadeGoesOn(email, pmid) == ~Truthy(email) /\ Truthy(pmid)

\* Mutant: the last candidate is taken.
PickCandidate_Last(emails) == emails[Len(emails)]

\* Line 329: possible_emails[0].
PickCandidate(emails) == emails[1]

\* Mutant: the article is kept when no author is non-academic.
NoHit_Never(names) == FALSE

\* Line 324: `if not non_acad_authors`.
NoHit(names) == names = <<>>

\* The position after the last article of a batch: the next batch, or the
\* return of the collected records (lines 51 and 71).
AfterBatch(res) ==
    /\ i' = i + BATCH_SIZE
    /\ IF i + BATCH_SIZE < n_ids
       THEN pc' = "efetch" /\ UNCHANGED returned
       ELSE pc' = "details_returned" /\ returned' = res
    /\ UNCHANGED <<art_idx, article>>

\* parse_pubmed_article returns result (<<>> for None, <<record>> for a
\* record).  Called on its own, that is the end; inside fetch_pubmed_details
\* the record is appended (lines 67-69) and the loop goes on.
Finish(result) ==
    IF mode = "parse"
    THEN pc' = "parse_returned" /\ returned' = result /\ UNCHANGED <<article, art_idx, i, results, results_src>>
    ELSE /\ results' = IF result # <<>> THEN AppendResult(results, result[1]) ELSE results
         /\ results_src' = IF result # <<>> THEN Append(results_src, [batch |-> i, index |-> art_idx, article |-> article]) ELSE results_src
         /\ IF art_idx < Len(resp)
            THEN art_idx' = art_idx + 1 /\ article' = resp[art_idx + 1] /\ pc' = "parse" /\ UNCHANGED <<i, returned>>
            ELSE AfterBatch(results')

\* The parser goes on to a resolver.
GoOn(next) == pc' = next /\ UNCHANGED <<article, art_idx, i, results, results_src, returned>>

\* An exception leaves parse_pubmed_article and, inside fetch_pubmed_details,
\* that function too.
Propagate == pc' = (IF mode = "parse" THEN "parse_raised" ELSE "details_raised") /\ UNCHANGED <<article, art_idx, i, results, results_src, returned>>

DetailsStart ==
    /\ pc = "details_start"
    /\ IF n_ids = 0
       THEN pc' = "details_returned" /\ returned' = <<>>
       ELSE pc' = "efetch" /\ UNCHANGED returned
    /\ UNCHANGED <<mode, classifyVars, idsVars, detailsVars, parseVars>>

\* One pass of the batch loop up to the first article (lines 52-66).
EFetch ==
    /\ pc = "efetch"
    /\ \E outcome \in RequestOutcomes, body \in EFetchResponses :
        /\ outcome = "ok" \/ body = <<>>
        /\ Len(body) <= MaxArticles - Received(efetch_log)
        /\ efetch_log' = Append(efetch_log, [offset |-> i, outcome |-> outcome, articles |-> Len(body)])
        /\ IF RequestRaises(outcome)
           THEN pc' = "details_raised" /\ UNCHANGED <<resp, art_idx, i, article, returned>>
           ELSE /\ resp' = body
                /\ IF body = <<>>
                   THEN AfterBatch(results)
                   ELSE art_idx' = 1 /\ article' = body[1] /\ pc' = "parse" /\ UNCHANGED <<i, returned>>
    /\ UNCHANGED <<mode, classifyVars, idsVars, n_ids, results, results_src, possible_emails, non_acad_authors, corresponding_email, calls>>

\* parse_pubmed_article up to its return or its first resolver call
\* (lines 278-333).
ParseArticle ==
    /\ pc = "parse"
    /\ calls' = <<>>
    /\ IF ~article.has_article_info
       THEN /\ possible_emails' = <<>> /\ non_acad_authors' = <<>> /\ corresponding_email' = None
            /\ Finish(<<>>)
       ELSE LET c == Collect(article)
                doi == get_doi_from_pubmed_xml(article)
            IN  /\ possible_emails' = c.emails
                /\ non_acad_authors' = c.names
                /\ IF NoHit(c.names)
                   THEN corresponding_email' = None /\ Finish(<<>>)
                   ELSE IF c.emails # <<>>
                   THEN corresponding_email' = PickCandidate(c.emails) /\ Finish(<<Record(article, c, PickCandidate(c.emails))>>)
                   ELSE /\ corresponding_email' = None
                        /\ IF Truthy(doi) THEN GoOn("crossref")
                           ELSE IF Truthy(article.pmid) THEN GoOn("europepmc")
                           ELSE Finish(<<Record(article, c, None)>>)
    /\ UNCHANGED <<mode, classifyVars, idsVars, n_ids, resp, efetch_log>>

Call(resolver, key, r, out) == [resolver |-> resolver, key |-> key, failed |-> FailedResponse(r), raised |-> out.raises, result |-> out.value]

\* Lines 334-335, and the test of line 336.
CallCrossref ==
    /\ pc = "crossref"
    /\ \E r \in CrossrefResponses :
        LET out == get_email_from_crossref(r) IN
        /\ calls' = Append(calls, Call("crossref", get_doi_from_pubmed_xml(article), r, out))
        /\ IF out.raises THEN Propagate /\ UNCHANGED corresponding_email
           ELSE /\ corresponding_email' = out.value
                /\ IF CascadeGoesOn(out.value, article.pmid) THEN GoOn("europepmc")
                   ELSE Finish(<<Record(article, Collect(article), out.value)>>)
    /\ UNCHANGED <<mode, classifyVars, idsVars, n_ids, resp, efetch_log, possible_emails, non_acad_authors>>

\* Lines 337-338, and the test of line 339.
CallEuropepmc ==
    /\ pc = "europepmc"
    /\ \E r \in EuropepmcResponses :
        LET out == get_email_from_europepmc(r) IN
        /\ calls' = Append(calls, Call("europepmc", article.pmid, r, out))
        /\ IF out.raises THEN Propagate /\ UNCHANGED corresponding_email
           ELSE /\ corresponding_email' = out.value
                /\ IF CascadeGoesOn(out.value, article.pmid) THEN GoOn("emails_endpoint")
                   ELSE Finish(<<Record(article, Collect(article), out.value)>>)
    /\ UNCHANGED <<mode, classifyVars, idsVars, n_ids, resp, efetch_log, possible_emails, non_acad_authors>>

\* Lines 340-350.
CallEmailsEndpoint ==
    /\ pc = "emails_endpoint"
    /\ \E r \in EmailsEndpointResponses :
        LET out == get_email_from_europepmc_emails_endpoint(r) IN
        /\ calls' = Append(calls, Call("emails_endpoint", article.pmid, r, out))
        /\ IF out.raises THEN Propagate /\ UNCHANGED corresponding_email
           ELSE /\ corresponding_email' = out.value
                /\ Finish(<<Record(article, Collect(article), out.value)>>)
    /\ UNCHANGED <<mode, classifyVars, idsVars, n_ids, resp, efetch_log, possible_emails, non_acad_authors>>

InitParse ==
    /\ mode = "parse" /\ pc = "parse"
    /\ article \in ParseArticles
    /\ possible_emails = <<>> /\ non_acad_authors = <<>> /\ corresponding_email = None /\ calls = <<>>
    /\ IdleClassify /\ IdleIds /\ IdleDetails /\ returned = <<>>

InitDetails ==
    /\ mode = "details" /\ pc = "details_start"
    /\ n_ids \in IdCounts
    /\ i = 0 /\ resp = <<>> /\ art_idx = 0 /\ results = <<>> /\ results_src = <<>> /\ efetch_log = <<>>
    /\ IdleClassify /\ IdleIds /\ IdleParse /\ returned = <<>>

(***************************************************************************)
(* is_non_academic_affiliation called on its own.                          *)
(***************************************************************************)
\* Bound: an input affil_in is the concatenation of at most MaxFrags fragments.
MaxFrags == 3

\* Fragments of affil_in text: keywords whole, in pieces and in mixed case.
Fragments == {<<"I", "n", "c">>, <<"P", "H", "A", "R", "M", "A">>, <<"U", "n", "i">>, <<"v", "e", "r", "s", "i", "t", "y">>, <<" ">>, <<"c", "o">>, <<"r", "p">>, <<"C", "l", "i", "n", "i", "c">>, <<"x">>}

RECURSIVE Concats(_)
Concats(n) == IF n = 0 THEN {<<>>} ELSE Concats(n - 1) \cup {s \o f : s \in Concats(n - 1), f \in Fragments}

AffilInputs == Concats(MaxFrags)

InitClassify ==
    /\ mode = "classify" /\ pc = "classify"
    /\ affil_in \in AffilInputs /\ classified = FALSE
    /\ IdleIds /\ IdleDetails /\ IdleParse /\ returned = <<>>

Classify ==
    /\ pc = "classify"
    /\ classified' = is_non_academic_affiliation(affil_in)
    /\ pc' = "classified"
    /\ UNCHANGED <<mode, affil_in, idsVars, detailsVars, parseVars, returned>>

(***************************************************************************)
(* fetch_pubmed_ids.  The upstream service answers a page request with a   *)
(* count and an ID list; IDs are numbered by their rank in the result set. *)
(***************************************************************************)
\* Bound: page sizes 0..MaxRetmax are passed as retmax, besides the default.
MaxRetmax == 3

\* Bound: the service reports counts 0..MaxTotal, besides the count of the example.
MaxTotal == 5

\* The default of retmax (line 134).
DefaultRetmax == 100

\* Bound: the count of the pagination example, reported to the default page size.
ExampleTotal == 250

Retmaxes == 0..MaxRetmax \cup {DefaultRetmax}

\* The counts the service reports to a request of page size p.
Counts(p) == 0..MaxTotal \cup (IF p = DefaultRetmax THEN {ExampleTotal} ELSE {})

\* The IDs of rank from + 1 .. to.
IdRange(from, to) == [x \in 1..(IF to > from THEN to - from ELSE 0) |-> from + x]

Min(a, b) == IF a <= b THEN a ELSE b

\* The ID lists the service sends for the page at offset start of size p
\* when it reports count: the page of the result set, or no list at all
\* (data["esearchresult"].get("idlist", [])).
IdLists(start, p, count) == {IdRange(start, Min(start + p, count)), <<>>}

\* The request logs keep their first LogCap entries.
LogCap == MaxTotal + 1

Log(log, entry) == IF Len(log) < LogCap THEN Append(log, entry) ELSE log

\* Mutant: the count is read from every page.
TotalAfterPage_EveryPage(tot, count) == count

\* Lines 171-172: the total is read once, from the first page decoded.
TotalAfterPage(tot, count) == IF tot = -1 THEN count ELSE tot

\* Line 176: all_ids.extend(ids).
ExtendIds(ids, page) == ids \o page

\* One pass of the while loop (lines 151-180), and the return of line 182.
ESearch ==
    /\ pc = "esearch"
    /\ \E outcome \in RequestOutcomes, count \in Counts(retmax) :
       \E ids \in IdLists(retstart, retmax, count) :
        /\ outcome = "ok" \/ (count = 0 /\ ids = <<>>)
        /\ esearch_log' = Log(esearch_log, [retstart |-> retstart, outcome |-> outcome])
        /\ esearch_parity' = 1 - esearch_parity
        /\ IF RequestRaises(outcome)
           THEN pc' = "ids_raised" /\ UNCHANGED <<retstart, total, all_ids, pages, first_count, returned>>
           ELSE /\ total' = TotalAfterPage(total, count)
                /\ all_ids' = ExtendIds(all_ids, ids)
                /\ pages' = Log(pages, ids)
                /\ first_count' = IF pages = <<>> THEN count ELSE first_count
                /\ retstart' = retstart + retmax
                /\ IF retstart' >= total'
                   THEN pc' = "ids_returned" /\ returned' = all_ids'
                   ELSE pc' = "esearch" /\ UNCHANGED returned
    /\ UNCHANGED <<mode, classifyVars, retmax, detailsVars, parseVars>>

InitIds ==
    /\ mode = "ids" /\ pc = "esearch"
    /\ retmax \in Retmaxes
    /\ retstart = 0 /\ total = -1 /\ all_ids = <<>> /\ esearch_log = <<>> /\ esearch_parity = 0 /\ pages = <<>> /\ first_count = -1
    /\ IdleClassify /\ IdleDetails /\ IdleParse /\ returned = <<>>

(***************************************************************************)
(* The specification: one call of one of the entry points, on any of the   *)
(* inputs above.                                                           *)
(***************************************************************************)
Init == InitClassify \/ InitIds \/ InitDetails \/ InitParse

Next == Classify \/ ESearch \/ DetailsStart \/ EFetch \/ ParseArticle \/ CallCrossref \/ CallEuropepmc \/ CallEmailsEndpoint

Spec == Init /\ [][Next]_vars

\* A running call takes its next step: the code is sequential and nothing
\* but its own return or an exception ends a call.
FairSpec == Spec /\ WF_vars(Next)

(***************************************************************************)
(* Claims.                                                                 *)
(***************************************************************************)
\* w occurs in s when upper and lower case are not told apart, compared
\* character by character.
OccursIgnoringCase(s, w) == \E off \in 0..(Len(s) - Len(w)) : \A j \in 1..Len(w) : LowerChar(s[off + j]) = LowerChar(w[j])

HasAcademicKeyword(s) == \E j \in DOMAIN ACADEMIC_KEYWORDS : OccursIgnoringCase(s, ACADEMIC_KEYWORDS[j])

HasCommercialKeyword(s) == \E j \in DOMAIN PHARMA_KEYWORDS : OccursIgnoringCase(s, PHARMA_KEYWORDS[j])

\* C8: is_non_academic_affiliation(affil) is true exactly when affil is
\* non-empty, contains no academic keyword and contains a commercial keyword
\* (case-insensitive substrings); an affil_in with an academic and a
\* commercial keyword is classified false, and so is one with no keyword.
C8_ClassifierExact ==
    pc = "classified" =>
        /\ classified = (affil_in # <<>> /\ ~HasAcademicKeyword(affil_in) /\ HasCommercialKeyword(affil_in))
        /\ (HasAcademicKeyword(affil_in) /\ HasCommercialKeyword(affil_in) => ~classified)
        /\ (~HasAcademicKeyword(affil_in) /\ ~HasCommercialKeyword(affil_in) => ~classified)

\* C8 witness: an affil_in with an academic and a commercial keyword, the
\* academic one split over two fragments and in mixed case, was classified.
C8_Witness == pc = "classified" /\ HasAcademicKeyword(affil_in) /\ HasCommercialKeyword(affil_in) /\ affil_in = <<"U", "n", "i">> \o <<"v", "e", "r", "s", "i", "t", "y">> \o <<"I", "n", "c">> /\ ~classified


\* Some affiliation of some author of the article is classified non-academic.
HasNonAcademicAuthor(art) == \E x \in DOMAIN art.authors : \E y \in DOMAIN art.authors[x].affils : AffilFacts[art.authors[x].affils[y]].hit

\* C1: parse_pubmed_article returns a record only for an article with an
\* affiliation classified non-academic, and None for every other article;
\* every record in the list of fetch_pubmed_details comes from an article
\* with such an affiliation.
C1_RecordOnlyIfNonAcademic ==
    /\ pc = "parse_returned" => (returned # <<>> => HasNonAcademicAuthor(article))
    /\ Len(results) = Len(results_src)
    /\ \A x \in DOMAIN results_src : HasNonAcademicAuthor(results_src[x].article)
    /\ pc = "details_returned" => returned = results

\* C1 witness: fetch_pubmed_details returned after it received two articles
\* and kept one; the other, with an e-mail and a DOI, was dropped.
C1_Witness == pc = "details_returned" /\ Received(efetch_log) = 2 /\ Len(returned) = 1 /\ returned[1].PubmedID = <<"2">>


\* The <<author, affiliation>> positions of the article whose affiliation
\* says "corresponding" and holds an e-mail address.
CorrespondingAffils(art) == UNION {{<<x, y>> : y \in {z \in DOMAIN art.authors[x].affils : AffilFacts[art.authors[x].affils[z]].corresponding /\ AffilFacts[art.authors[x].affils[z]].email # None}} : x \in DOMAIN art.authors}

\* Those among them that the classifier accepts.
CorrespondingHits(art) == {p \in CorrespondingAffils(art) : AffilFacts[art.authors[p[1]].affils[p[2]]].hit}

\* Position p comes before q in document order.
Before(p, q) == p[1] < q[1] \/ (p[1] = q[1] /\ p[2] <= q[2])

AffilEmailAt(art, p) == AffilFacts[art.authors[p[1]].affils[p[2]]].email

\* C2 as claimed: the record's e-mail is the e-mail of every affiliation that
\* says "corresponding" and holds one.  Fails: such an affiliation with an
\* academic keyword is not read at all, and of two such affiliations only
\* one can give the e-mail.
C2_AnyCorrespondingAffilWins ==
    pc = "parse_returned" /\ returned # <<>> =>
        \A p \in CorrespondingAffils(article) : returned[1].CorrespondingAuthorEmail = AffilEmailAt(article, p)

\* C2 as amended: if some affiliation that is classified non-academic says
\* "corresponding" and holds an e-mail, the record's e-mail is the e-mail of
\* the last such affiliation in document order, whatever the other candidates.
C2_LastCorrespondingHitWins ==
    pc = "parse_returned" /\ returned # <<>> /\ CorrespondingHits(article) # {} =>
        LET last == CHOOSE p \in CorrespondingHits(article) : \A q \in CorrespondingHits(article) : Before(q, p)
        IN  returned[1].CorrespondingAuthorEmail = AffilEmailAt(article, last)

\* C2 witness: a "corresponding" hit in the middle, an identifier e-mail and
\* a plain affiliation e-mail before it and an electronic address after it.
C2_Witness ==
    /\ pc = "parse_returned" /\ returned # <<>>
    /\ article.authors = <<Author(<<AffCorrGamma>>, <<"i", "d", "@", "x", ".", "o", "r", "g">>, None), Author(<<AffExample, AffCorrBeta>>, None, <<"e", "l", "@", "x", ".", "o", "r", "g">>), Author(<<>>, <<"i", "d", "@", "x", ".", "o", "r", "g">>, <<"e", "l", "@", "x", ".", "o", "r", "g">>)>>
    /\ returned[1].CorrespondingAuthorEmail = <<"b", "o", "b", "@", "b", "e", "t", "a", ".", "i", "o">>
    /\ Len(possible_emails) = 6


Rank(call) == IF call.resolver = "crossref" THEN 1 ELSE IF call.resolver = "europepmc" THEN 2 ELSE 3

\* C3: the resolvers are invoked in the order crossref (by DOI), europepmc
\* (by PMID), emails endpoint (by PMID), each at most once, and no resolver
\* is invoked after one that returned a non-empty e-mail.
C3_CascadeShortCircuits ==
    /\ \A x \in DOMAIN calls : \A y \in DOMAIN calls : x < y => Rank(calls[x]) < Rank(calls[y]) /\ ~Truthy(calls[x].result)
    /\ mode = "parse" \/ pc \in {"crossref", "europepmc", "emails_endpoint"} =>
        \A x \in DOMAIN calls : Truthy(calls[x].key) /\ calls[x].key = (IF Rank(calls[x]) = 1 THEN get_doi_from_pubmed_xml(article) ELSE article.pmid)
    /\ \A x \in DOMAIN calls : Truthy(calls[x].result) => pc \notin {"crossref", "europepmc", "emails_endpoint"}

\* C3 witness: the first resolver gave an e-mail for an article that has a
\* PMID, and the parser returned after that one call.
C3_Witness == pc = "parse_returned" /\ Len(calls) = 1 /\ calls[1].resolver = "crossref" /\ calls[1].result = <<"c", "r", "@", "x", ".", "o", "r", "g">> /\ Truthy(article.pmid) /\ returned[1].CorrespondingAuthorEmail = <<"c", "r", "@", "x", ".", "o", "r", "g">>


\* ceil(t / p) for p >= 1.
CeilDiv(t, p) == (t + p - 1) \div p

Max(a, b) == IF a >= b THEN a ELSE b

RECURSIVE Flatten(_)
Flatten(lists) == IF lists = <<>> THEN <<>> ELSE Head(lists) \o Flatten(Tail(lists))

\* C4: for a page size p >= 1 and the total T of the first page,
\* fetch_pubmed_ids issues max(1, ceil(T / p)) page requests, at the offsets
\* 0, p, 2p, ..., and returns the ID lists of the pages concatenated in
\* request order; T is the count of the first page only.
C4_Pagination ==
    mode = "ids" /\ retmax >= 1 =>
        /\ \A x \in DOMAIN esearch_log : esearch_log[x].retstart = (x - 1) * retmax
        /\ total = first_count
        /\ total # -1 => Len(esearch_log) <= Max(1, CeilDiv(total, retmax))
        /\ pc = "esearch" => Len(pages) = Len(esearch_log) /\ (total # -1 => Len(pages) < CeilDiv(total, retmax))
        /\ pc = "ids_returned" =>
            /\ Len(esearch_log) = Max(1, CeilDiv(total, retmax))
            /\ Len(pages) = Len(esearch_log)
            /\ returned = Flatten(pages)

\* C4 witness: a total of 250 at page size 100 took three requests, at the
\* offsets 0, 100 and 200, and returned the 250 IDs in order.
C4_Witness ==
    /\ pc = "ids_returned" /\ retmax = 100 /\ total = 250
    /\ esearch_log = <<[retstart |-> 0, outcome |-> "ok"], [retstart |-> 100, outcome |-> "ok"], [retstart |-> 200, outcome |-> "ok"]>>
    /\ returned = IdRange(0, 250)


NextResolver(call) == IF call.resolver = "crossref" THEN "europepmc" ELSE "emails_endpoint"

CascadeRunning == pc \in {"crossref", "europepmc", "emails_endpoint"}

\* No resolver call raised, a failed call returned None, and no exception
\* of a resolver ended parse_pubmed_article or fetch_pubmed_details.
ResolverFailuresAbsorbed ==
    /\ \A x \in DOMAIN calls : ~calls[x].raised /\ (calls[x].failed => calls[x].result = None)
    /\ pc # "parse_raised"
    /\ pc = "details_raised" => efetch_log[Len(efetch_log)].outcome # "ok"

\* C5 as claimed: a resolver that meets a network error, a status that is
\* not 2xx or a malformed body returns None, the parser goes on with the
\* next resolver and the record is emitted.  Fails: after a failed DOI
\* lookup no resolver follows when the article has no PMID.
C5_FailureThenNextResolver ==
    /\ ResolverFailuresAbsorbed
    /\ mode = "parse" /\ ~CascadeRunning =>
        /\ \A x \in DOMAIN calls : calls[x].failed /\ Rank(calls[x]) < 3 => x < Len(calls) /\ calls[x + 1].resolver = NextResolver(calls[x])
        /\ calls # <<>> => pc = "parse_returned" /\ returned # <<>>

\* C5 as amended: the same, the parser going on with the next resolver
\* whenever the article has a PMID (both later resolvers are keyed by it);
\* the record is emitted in every case, with an empty e-mail when every
\* resolver that was invoked failed.
C5_FailureThenNextResolverByPmid ==
    /\ ResolverFailuresAbsorbed
    /\ mode = "parse" /\ ~CascadeRunning =>
        /\ \A x \in DOMAIN calls : calls[x].failed /\ Rank(calls[x]) < 3 /\ Truthy(article.pmid) => x < Len(calls) /\ calls[x + 1].resolver = NextResolver(calls[x])
        /\ calls # <<>> => pc = "parse_returned" /\ returned # <<>>
        /\ calls # <<>> /\ (\A x \in DOMAIN calls : calls[x].failed) => returned[1].CorrespondingAuthorEmail = <<>>

\* C5 witness: the three resolvers failed, one on the network, one on the
\* status and one on the body, and the record came out with an empty e-mail.
C5_Witness ==
    /\ pc = "parse_returned" /\ Len(calls) = 3 /\ returned # <<>>
    /\ \A x \in DOMAIN calls : calls[x].failed /\ calls[x].result = None
    /\ returned[1].CorrespondingAuthorEmail = <<>>


\* C6: a failed page request of fetch_pubmed_ids or batch request of
\* fetch_pubmed_details (connection failure, status that is not 2xx,
\* undecodable body) is the last request of the call; the call raises and
\* returns nothing of what it had collected.
C6_PrimaryErrorIsTerminal ==
    /\ \A x \in DOMAIN esearch_log : esearch_log[x].outcome # "ok" => x = Len(esearch_log) /\ pc = "ids_raised"
    /\ \A x \in DOMAIN efetch_log : efetch_log[x].outcome # "ok" => x = Len(efetch_log) /\ pc = "details_raised"
    /\ pc \in {"ids_raised", "details_raised"} => returned = <<>>
    /\ pc = "ids_returned" => \A x \in DOMAIN esearch_log : esearch_log[x].outcome = "ok"
    /\ pc = "details_returned" => \A x \in DOMAIN efetch_log : efetch_log[x].outcome = "ok"

\* C6 witness: the second batch request of fetch_pubmed_details failed after
\* the first batch had given a record; nothing was returned.
C6_Witness == pc = "details_raised" /\ Len(efetch_log) = 2 /\ efetch_log[2].outcome = "http_error" /\ Len(results) = 1 /\ returned = <<>>


FetchEnded == pc \in {"ids_returned", "ids_raised", "details_returned", "details_raised"}

\* C9: every call of fetch_pubmed_ids and of fetch_pubmed_details ends: it
\* returns or it raises.
C9_FetchEnds == mode \in {"ids", "details"} => <>FetchEnded

\* What the code guarantees: the calls with a page size of at least 1 end.
C9_FetchEndsForPositivePageSize == mode \in {"ids", "details"} /\ (mode = "ids" => retmax >= 1) => <>FetchEnded


\* C10: with a non-empty candidate list the record's e-mail is the first
\* candidate and no resolver is called; resolvers are called only when the
\* list is empty.  The affiliation "Acme Pharma Inc, contact: jane@acme.com"
\* alone gives jane@acme.com.
C10_FirstCandidateNoResolver ==
    /\ pc = "parse_returned" /\ returned # <<>> /\ possible_emails # <<>> =>
        returned[1].CorrespondingAuthorEmail = Head(possible_emails) /\ calls = <<>>
    /\ calls # <<>> \/ CascadeRunning => possible_emails = <<>>
    /\ pc = "parse_returned" /\ article.has_article_info /\ article.authors = <<Author(<<AffExample>>, None, None)>> =>
        returned # <<>> /\ returned[1].CorrespondingAuthorEmail = <<"j", "a", "n", "e", "@", "a", "c", "m", "e", ".", "c", "o", "m">> /\ calls = <<>>

\* C10 witness: the example, in an article that has a DOI and a PMID.
C10_Witness ==
    /\ pc = "parse_returned" /\ article.authors = <<Author(<<AffExample>>, None, None)>> /\ article.article_ids = DoiIds /\ Truthy(article.pmid)
    /\ possible_emails = <<<<"j", "a", "n", "e", "@", "a", "c", "m", "e", ".", "c", "o", "m">>>> /\ calls = <<>>
    /\ returned[1].CorrespondingAuthorEmail = <<"j", "a", "n", "e", "@", "a", "c", "m", "e", ".", "c", "o", "m">>

=============================================================================
